---- MODULE Spec2Model ----
(***************************************************************************)
(* Model of src/primitives.rs of the combine parser-combinator library:    *)
(* Info / Error equality, the Consumed flag and Consumed::combine, the     *)
(* ParseError algebra (add_error, set_expected, merge), the built-in       *)
(* streams with their positioners, State::uncons and the default           *)
(* Parser::parse_state.                                                    *)
(***************************************************************************)
EXTENDS Integers, Sequences, FiniteSets, TLC

VARIABLES
    perr,       \* ParseError under construction (the `self` of the methods)
    other,      \* a second ParseError, the argument of merge
    pre,        \* value of perr before the last method call
    op,         \* name of the last ParseError method called
    arg,        \* argument of the last ParseError method called
    hist,       \* arguments of the add_error calls made so far, in call order
    cself,      \* the Consumed value combine is called on
    cf,         \* the closure handed to combine
    cout,       \* what combine returned
    cpc,        \* "init" before the call of combine, "done" after it
    input0,     \* the items of the stream State::new was given
    st,         \* the State the next uncons is called on
    stPre,      \* the State the last uncons was called on
    items,      \* the items the successful uncons calls returned, in order
    ures,       \* what the last State::uncons returned
    spc,        \* "ready", or "failed" once uncons has returned Err
    pchars,     \* the items left in the state parse_state is given
    pinput,     \* the State parse_state is given
    pself,      \* the parser, named by its add_error
    plazy,      \* what parse_lazy returns on pinput
    pres,       \* what parse_state returned
    pcalls,     \* number of calls of the parser's add_error parse_state made
    ppc,        \* "init" before the call of parse_state, "done" after it
    third,      \* a third ParseError, merged after perr and other
    assocLeft,  \* merge(merge(perr, other), third)
    assocRight, \* merge(perr, merge(other, third))
    rendered    \* what Display wrote for perr

errVars == <<perr, other, pre, op, arg, hist>>

combVars == <<cself, cf, cout, cpc>>

streamVars == <<input0, st, stPre, items, ures, spc>>

parserVars == <<pchars, pinput, pself, plazy, pres, pcalls, ppc>>

assocVars == <<third, assocLeft, assocRight>>

fmtVars == <<rendered>>

vars == <<errVars, combVars, streamVars, parserVars, assocVars, fmtVars>>

-----------------------------------------------------------------------------
(* Bounds *)

\* longest errors vector the model builds
MaxErrors == 2

\* most add_error calls logged in hist
MaxCalls == 3

\* longest errors vector handed to merge as an arbitrary input
MaxVec == 2

\* longest errors vector handed to set_expected as an arbitrary input
MaxRetain == 3

\* most items in a stream handed to State::new
MaxLen == 3

\* most items left in the state handed to parse_state
MaxIn == 2

\* longest errors vector handed to Display
MaxShown == 4

\* longest errors vector of the three errors merged both ways
MaxAssoc == 2

-----------------------------------------------------------------------------
(* SourcePosition, primitives.rs 6-12: derive(Ord) compares line, then column *)

SourcePosition(l, c) == [line |-> l, column |-> c]

SourcePosition_cmp(a, b) ==
    IF a.line < b.line THEN "Less"
    ELSE IF a.line > b.line THEN "Greater"
    ELSE IF a.column < b.column THEN "Less"
    ELSE IF a.column > b.column THEN "Greater"
    ELSE "Equal"

-----------------------------------------------------------------------------
(* Info and Error, primitives.rs 31-114 *)

Token(t) == [tag |-> "Token", val |-> t]
Owned(s) == [tag |-> "Owned", val |-> s]
Borrowed(s) == [tag |-> "Borrowed", val |-> s]

\* impl PartialEq for Info: Owned and Borrowed compare by content
Info_eq(l, r) ==
    CASE l.tag = "Token" /\ r.tag = "Token" -> l.val = r.val
      [] l.tag = "Range" /\ r.tag = "Range" -> l.val = r.val
      [] l.tag = "Owned" /\ r.tag = "Owned" -> l.val = r.val
      [] l.tag = "Borrowed" /\ r.tag = "Owned" -> l.val = r.val
      [] l.tag = "Owned" /\ r.tag = "Borrowed" -> l.val = r.val
      [] l.tag = "Borrowed" /\ r.tag = "Borrowed" -> l.val = r.val
      [] OTHER -> FALSE

Unexpected(i) == [kind |-> "Unexpected", info |-> i]
Expected(i) == [kind |-> "Expected", info |-> i]
Message(i) == [kind |-> "Message", info |-> i]
\* Other(Box<StdError+Send>): the boxed error is named by a string
Other(b) == [kind |-> "Other", info |-> [tag |-> "Boxed", val |-> b]]

\* impl PartialEq for Error: Other falls to the `_ => false` arm
Error_eq(l, r) ==
    CASE l.kind = "Unexpected" /\ r.kind = "Unexpected" -> Info_eq(l.info, r.info)
      [] l.kind = "Expected" /\ r.kind = "Expected" -> Info_eq(l.info, r.info)
      [] l.kind = "Message" /\ r.kind = "Message" -> Info_eq(l.info, r.info)
      [] OTHER -> FALSE

\* Error::end_of_input: "End of input".into() is Info::Borrowed
Error_end_of_input == Message(Borrowed("End of input"))

-----------------------------------------------------------------------------
(* ParseError, primitives.rs 211-268 *)

from_errors(position, errors) == [position |-> position, errors |-> errors]

ParseError_new(position, error) == from_errors(position, <<error>>)

ParseError_empty(position) == from_errors(position, <<>>)

ParseError_end_of_input(position) == from_errors(position, <<Error_end_of_input>>)

\* faulty variant: pushes without looking for an equal entry
add_error_always_push(self, message) ==
    [self EXCEPT !.errors = Append(@, message)]

\* faulty variant: looks for an identical entry, so Owned "x" and Borrowed "x" differ
add_error_identical_only(self, message) ==
    IF \A i \in 1..Len(self.errors) : self.errors[i] # message
    THEN [self EXCEPT !.errors = Append(@, message)]
    ELSE self

add_error(self, message) ==
    IF \A i \in 1..Len(self.errors) : ~Error_eq(self.errors[i], message)
    THEN [self EXCEPT !.errors = Append(@, message)]
    ELSE self

add_message(self, message) == add_error(self, Message(message))

IsNotExpected(e) == e.kind # "Expected"

\* faulty variant: pushes the new Expected without removing the old ones
set_expected_no_retain(self, message) ==
    [self EXCEPT !.errors = Append(@, Expected(message))]

set_expected(self, message) ==
    [self EXCEPT !.errors = Append(SelectSeq(@, IsNotExpected), Expected(message))]

\* the `for message in other.errors.into_iter()` loop of merge
RECURSIVE merge_loop(_, _)
merge_loop(self, messages) ==
    IF messages = <<>> THEN self
    ELSE merge_loop(add_error(self, Head(messages)), Tail(messages))

\* faulty variant: when self is further on, still takes in other's errors
merge_greater_keeps_both(self, oth) ==
    CASE SourcePosition_cmp(self.position, oth.position) = "Less" -> oth
      [] OTHER -> merge_loop(self, oth.errors)

\* faulty variant: at a tie keeps self and drops other's errors
merge_tie_keeps_self(self, oth) ==
    CASE SourcePosition_cmp(self.position, oth.position) = "Less" -> oth
      [] OTHER -> self

merge(self, oth) ==
    CASE SourcePosition_cmp(self.position, oth.position) = "Less" -> oth
      [] SourcePosition_cmp(self.position, oth.position) = "Greater" -> self
      [] SourcePosition_cmp(self.position, oth.position) = "Equal" ->
            merge_loop(self, oth.errors)

-----------------------------------------------------------------------------
(* Display, primitives.rs 52-61 and 296-363.  A formatter is the string     *)
(* written to it so far; write! appends, writeln! appends and ends the line *)

\* Display for char, for the characters the sample tokens are
char_fmt(c) ==
    CASE c = 97 -> "a"
      [] c = 120 -> "x"
      [] c = 10 -> "\n"

\* impl Display for Info: the contained value, verbatim
Info_fmt(i) == IF i.tag = "Token" THEN char_fmt(i.val) ELSE i.val

\* impl Display for SourcePosition
SourcePosition_fmt(p) ==
    "line: " \o ToString(p.line) \o ", column: " \o ToString(p.column)

\* impl Display for Error; for Other the boxed error formats itself
Error_fmt(e) ==
    CASE e.kind = "Unexpected" -> "Unexpected token '" \o Info_fmt(e.info) \o "'"
      [] e.kind = "Expected" -> "Expected " \o Info_fmt(e.info)
      [] e.kind = "Message" -> Info_fmt(e.info)
      [] e.kind = "Other" -> e.info.val

\* `for error in unexpected { writeln!(f, "{}", error) }`
RECURSIVE fmt_unexpected(_)
fmt_unexpected(errors) ==
    IF errors = <<>> THEN ""
    ELSE (IF Head(errors).kind = "Unexpected"
          THEN Error_fmt(Head(errors)) \o "\n" ELSE "")
         \o fmt_unexpected(Tail(errors))

expected_count(errors) == Len(SelectSeq(errors, LAMBDA e : e.kind = "Expected"))

\* the loop writing the expected list; i counts the Expected entries met
RECURSIVE fmt_expected(_, _, _)
fmt_expected(errors, i, count) ==
    IF errors = <<>> THEN ""
    ELSE IF Head(errors).kind = "Expected"
         THEN (IF i + 1 = 1 THEN "Expected"
               ELSE IF i + 1 = count THEN " or"
               ELSE ",")
              \o " '" \o Info_fmt(Head(errors).info) \o "'"
              \o fmt_expected(Tail(errors), i + 1, count)
         ELSE fmt_expected(Tail(errors), i, count)

\* `for error in messages { writeln!(f, "{}", error) }`
RECURSIVE fmt_messages(_)
fmt_messages(errors) ==
    IF errors = <<>> THEN ""
    ELSE (IF Head(errors).kind \in {"Message", "Other"}
          THEN Error_fmt(Head(errors)) \o "\n" ELSE "")
         \o fmt_messages(Tail(errors))

\* faulty variant: writes every entry on a line of its own, in vector order
RECURSIVE fmt_in_vector_order(_)
fmt_in_vector_order(errors) ==
    IF errors = <<>> THEN ""
    ELSE Error_fmt(Head(errors)) \o "\n" \o fmt_in_vector_order(Tail(errors))

ParseError_fmt_ungrouped(self) ==
    "Parse error at " \o SourcePosition_fmt(self.position) \o "\n"
        \o fmt_in_vector_order(self.errors)

\* impl Display for ParseError
ParseError_fmt(self) ==
    "Parse error at " \o SourcePosition_fmt(self.position) \o "\n"
        \o fmt_unexpected(self.errors)
        \o fmt_expected(self.errors, 0, expected_count(self.errors))
        \o (IF expected_count(self.errors) # 0 THEN "\n" ELSE "")
        \o fmt_messages(self.errors)

-----------------------------------------------------------------------------
(* Consumed and ParseResult, primitives.rs 116-207 and 417 *)

Consumed(x) == [flag |-> "Consumed", inner |-> x]
Empty(x) == [flag |-> "Empty", inner |-> x]

\* ParseResult = Result<(O, Consumed<State>), Consumed<ParseError>>
Ok(v, rest) == [tag |-> "Ok", value |-> v, inner |-> rest]
Err(e) == [tag |-> "Err", inner |-> e]

\* faulty variant: promotes the Ok arm only, an empty failure stays Empty
combine_ok_arm_only(self, f) ==
    CASE self.flag = "Consumed" ->
            LET y == f[self.inner] IN
            CASE y.tag = "Ok" /\ y.inner.flag = "Empty" ->
                    Ok(y.value, Consumed(y.inner.inner))
              [] OTHER -> y
      [] self.flag = "Empty" -> f[self.inner]

\* f is the closure, a function from the payload to a ParseResult
combine(self, f) ==
    CASE self.flag = "Consumed" ->
            LET y == f[self.inner] IN
            CASE y.tag = "Ok" /\ y.inner.flag = "Empty" ->
                    Ok(y.value, Consumed(y.inner.inner))
              [] y.tag = "Err" /\ y.inner.flag = "Empty" ->
                    Err(Consumed(y.inner.inner))
              [] OTHER -> y
      [] self.flag = "Empty" -> f[self.inner]

-----------------------------------------------------------------------------
(* Streams, primitives.rs 419-476.  A &str is its UTF-8 bytes, a &[u8] its  *)
(* bytes, an IteratorStream the items its iterator has yet to yield.       *)

StrStream(bytes) == [kind |-> "str", data |-> bytes]
SliceStream(elems) == [kind |-> "slice", data |-> elems]
IteratorStream(iter) == [kind |-> "iter", data |-> iter]

\* char::len_utf8
len_utf8(c) ==
    IF c < 128 THEN 1
    ELSE IF c < 2048 THEN 2
    ELSE IF c < 65536 THEN 3
    ELSE 4

\* the UTF-8 encoding of one scalar value
encode_utf8(c) ==
    IF c < 128 THEN <<c>>
    ELSE IF c < 2048 THEN <<192 + (c \div 64), 128 + (c % 64)>>
    ELSE IF c < 65536 THEN
        <<224 + (c \div 4096), 128 + ((c \div 64) % 64), 128 + (c % 64)>>
    ELSE <<240 + (c \div 262144), 128 + ((c \div 4096) % 64),
           128 + ((c \div 64) % 64), 128 + (c % 64)>>

\* the text whose characters are cs, as a str holds it
RECURSIVE str_from_chars(_)
str_from_chars(cs) ==
    IF cs = <<>> THEN <<>>
    ELSE encode_utf8(Head(cs)) \o str_from_chars(Tail(cs))

\* self.chars().next() on a non-empty str: decodes the leading scalar value
chars_next(bytes) ==
    IF bytes[1] < 128 THEN bytes[1]
    ELSE IF bytes[1] < 224 THEN (bytes[1] - 192) * 64 + (bytes[2] - 128)
    ELSE IF bytes[1] < 240 THEN
        (bytes[1] - 224) * 4096 + (bytes[2] - 128) * 64 + (bytes[3] - 128)
    ELSE (bytes[1] - 240) * 262144 + (bytes[2] - 128) * 4096
             + (bytes[3] - 128) * 64 + (bytes[4] - 128)

UnconsOk(c, rest) == [tag |-> "Ok", item |-> c, rest |-> rest]
UnconsErr(e) == [tag |-> "Err", error |-> e]

\* faulty variant: takes the first byte as the character
str_uncons_first_byte(self) ==
    IF Len(self.data) > 0
    THEN UnconsOk(self.data[1],
                  StrStream(SubSeq(self.data, len_utf8(chars_next(self.data)) + 1,
                                   Len(self.data))))
    ELSE UnconsErr(Error_end_of_input)

\* impl Stream for &str
str_uncons(self) ==
    IF Len(self.data) > 0
    THEN LET c == chars_next(self.data) IN
         UnconsOk(c, StrStream(SubSeq(self.data, len_utf8(c) + 1, Len(self.data))))
    ELSE UnconsErr(Error_end_of_input)

\* impl Stream for &[T]
slice_uncons(self) ==
    IF Len(self.data) > 0
    THEN UnconsOk(self.data[1], SliceStream(SubSeq(self.data, 2, Len(self.data))))
    ELSE UnconsErr(Error_end_of_input)

\* impl Stream for IteratorStream<I>: self.0.next()
iter_uncons(self) ==
    IF self.data # <<>>
    THEN UnconsOk(Head(self.data), IteratorStream(Tail(self.data)))
    ELSE UnconsErr(Error_end_of_input)

\* Stream::uncons, dispatched on the stream type
Stream_uncons(self) ==
    CASE self.kind = "str" -> str_uncons(self)
      [] self.kind = "slice" -> slice_uncons(self)
      [] self.kind = "iter" -> iter_uncons(self)

-----------------------------------------------------------------------------
(* Positioner, primitives.rs 478-546.  The items of a str and of the        *)
(* iterator streams modelled here are chars, those of a slice are u8.       *)
(* line and column are i32 and the offset usize; the inputs modelled keep   *)
(* them far below the range where the additions overflow.                   *)

BytePosition(n) == [position |-> n]

char_start == SourcePosition(1, 1)

\* faulty variant: a newline advances the line and leaves the column running
char_update_no_reset(c, position) ==
    IF c = 10
    THEN [line |-> position.line + 1, column |-> position.column + 1]
    ELSE [line |-> position.line, column |-> position.column + 1]

\* impl Positioner for char; '\n' is 10
char_update(c, position) ==
    LET p == [position EXCEPT !.column = @ + 1] IN
    IF c = 10
    THEN [line |-> p.line + 1, column |-> 1]
    ELSE p

u8_start == BytePosition(0)

\* impl Positioner for u8
u8_update(b, position) == [position EXCEPT !.position = @ + 1]

\* <I::Item as Positioner>::start() for the stream's item type
Positioner_start(kind) ==
    IF kind = "slice" THEN u8_start ELSE char_start

\* c.update(&mut position) for the stream's item type
Positioner_update(kind, c, position) ==
    IF kind = "slice" THEN u8_update(c, position) ELSE char_update(c, position)

-----------------------------------------------------------------------------
(* State, primitives.rs 365-409 *)

State(position, input) == [position |-> position, input |-> input]

State_new(input) == State(Positioner_start(input.kind), input)

\* faulty variant: reports the end of input as a consumed failure
State_uncons_err_consumed(self) ==
    LET r == Stream_uncons(self.input) IN
    IF r.tag = "Ok"
    THEN Ok(r.item, Consumed(State(Positioner_update(self.input.kind, r.item, self.position),
                                   r.rest)))
    ELSE Err(Consumed(ParseError_new(self.position, r.error)))

State_uncons(self) ==
    LET r == Stream_uncons(self.input) IN
    IF r.tag = "Ok"
    THEN Ok(r.item, Consumed(State(Positioner_update(self.input.kind, r.item, self.position),
                                   r.rest)))
    ELSE Err(Empty(ParseError_new(self.position, r.error)))

-----------------------------------------------------------------------------
(* Parser, primitives.rs 554-592.  parse_lazy is what the implementor       *)
(* writes; its result is an input here.  A parser is named by the add_error *)
(* it carries.                                                              *)

\* Parser::add_error, the default: leaves the error alone
default_add_error(error) == error

\* an overriding add_error: adds this parser's Expected description
expected_add_error(error) == add_error(error, Expected(Borrowed("digit")))

\* self.add_error(error), dispatched on the parser
Parser_add_error(parser, error) ==
    CASE parser = "default" -> default_add_error(error)
      [] parser = "digit" -> expected_add_error(error)

\* faulty variant: calls the parser's add_error only when the state still has an item
parse_state_add_error_if_item(parser, input, lazy) ==
    IF lazy.tag = "Err" /\ lazy.inner.flag = "Empty"
    THEN LET u == Stream_uncons(input.input) IN
         IF u.tag = "Ok"
         THEN [result |-> Err(Empty(Parser_add_error(parser,
                              add_error(lazy.inner.inner, Unexpected(Token(u.item)))))),
               add_error_calls |-> 1]
         ELSE [result |-> lazy, add_error_calls |-> 0]
    ELSE [result |-> lazy, add_error_calls |-> 0]

\* faulty variant: does not insert the unexpected token
parse_state_no_unexpected(parser, input, lazy) ==
    IF lazy.tag = "Err" /\ lazy.inner.flag = "Empty"
    THEN [result |-> Err(Empty(Parser_add_error(parser, lazy.inner.inner))),
          add_error_calls |-> 1]
    ELSE [result |-> lazy, add_error_calls |-> 0]

\* the default Parser::parse_state; lazy is the result of
\* self.parse_lazy(input.clone()).  Yields the result and the number of
\* calls of self.add_error made.
parse_state(parser, input, lazy) ==
    IF lazy.tag = "Err" /\ lazy.inner.flag = "Empty"
    THEN LET u == Stream_uncons(input.input)
             error == IF u.tag = "Ok"
                      THEN add_error(lazy.inner.inner, Unexpected(Token(u.item)))
                      ELSE lazy.inner.inner
         IN [result |-> Err(Empty(Parser_add_error(parser, error))),
             add_error_calls |-> 1]
    ELSE [result |-> lazy, add_error_calls |-> 0]

-----------------------------------------------------------------------------
(* Sample values the methods are called with *)

SamplePositions == {SourcePosition(1, 2), SourcePosition(2, 1)}

SampleInfos == {Owned("x"), Borrowed("x"), Borrowed("y")}

SampleMessages == {Borrowed("End of input")}

SampleErrors ==
    {Unexpected(Token(97)), Expected(Owned("x")), Expected(Borrowed("x")),
     Expected(Borrowed("y")), Error_end_of_input, Other("io")}

\* the errors merge is called with; Owned "x" and Borrowed "x" are equal
MergeErrors ==
    {Expected(Owned("x")), Expected(Borrowed("x")), Error_end_of_input, Other("io")}

NoError == ParseError_empty(SourcePosition(1, 1))

\* all sequences over S of length at most n
SeqsUpTo(S, n) == UNION {[1..k -> S] : k \in 0..n}

\* ParseErrors as from_errors can build them: any vector, duplicates included
AnyParseError(S, n) ==
    {from_errors(p, es) : p \in SamplePositions, es \in SeqsUpTo(S, n)}

\* the scalar values of the texts: 'a', '\n', e-acute, the euro sign and an
\* emoji, of 1, 1, 2, 3 and 4 bytes of UTF-8
SampleChars == {97, 10, 233, 8364, 128512}

SampleBytes == {16, 32, 10}

NoResult == [tag |-> "None"]

NoState == State(u8_start, SliceStream(<<>>))

\* the values the variables of the other machines rest at
ErrIdle ==
    /\ perr = NoError
    /\ other = NoError
    /\ pre = NoError
    /\ op = "idle"
    /\ arg = <<>>
    /\ hist = <<>>

CombIdle ==
    /\ cself = Empty(NoState)
    /\ cf = <<>>
    /\ cout = NoResult
    /\ cpc = "idle"

StreamIdle ==
    /\ input0 = <<>>
    /\ st = NoState
    /\ stPre = NoState
    /\ items = <<>>
    /\ ures = NoResult
    /\ spc = "idle"

ParserIdle ==
    /\ pchars = <<>>
    /\ pinput = NoState
    /\ pself = "default"
    /\ plazy = NoResult
    /\ pres = NoResult
    /\ pcalls = 0
    /\ ppc = "idle"

AssocIdle ==
    /\ third = NoError
    /\ assocLeft = NoError
    /\ assocRight = NoError

FmtIdle == rendered = ""

-----------------------------------------------------------------------------
(* SpecCombine: combine called on a Consumed or Empty state with a closure  *)

CombStates ==
    {State(BytePosition(1), SliceStream(<<32>>)), State(BytePosition(2), SliceStream(<<>>))}

CombErrors ==
    {ParseError_end_of_input(BytePosition(2)),
     ParseError_new(BytePosition(1), Unexpected(Token(32)))}

CombResults ==
    {Ok(v, c) : v \in {16, 32},
                c \in {Consumed(x) : x \in CombStates} \cup {Empty(x) : x \in CombStates}}
    \cup {Err(c) : c \in {Consumed(e) : e \in CombErrors} \cup {Empty(e) : e \in CombErrors}}

InitCombine ==
    /\ cself \in {Consumed(x) : x \in CombStates} \cup {Empty(x) : x \in CombStates}
    /\ cf \in [CombStates -> CombResults]
    /\ cout = NoResult
    /\ cpc = "init"
    /\ ErrIdle
    /\ StreamIdle
    /\ ParserIdle
    /\ AssocIdle
    /\ FmtIdle

CombineCall ==
    /\ cpc = "init"
    /\ cout' = combine(cself, cf)
    /\ cpc' = "done"
    /\ UNCHANGED <<cself, cf, errVars, streamVars, parserVars, assocVars, fmtVars>>

NextCombine == CombineCall

SpecCombine == InitCombine /\ [][NextCombine]_vars

-----------------------------------------------------------------------------
(* SpecStream: State::new on a text, a byte slice or an iterator of chars,  *)
(* then uncons on the returned state until it fails                         *)

InitStream ==
    /\ \E kind \in {"str", "slice", "iter"} :
         \E cs \in SeqsUpTo(IF kind = "slice" THEN SampleBytes ELSE SampleChars, MaxLen) :
            /\ input0 = cs
            /\ st = State_new(CASE kind = "str" -> StrStream(str_from_chars(cs))
                                [] kind = "slice" -> SliceStream(cs)
                                [] kind = "iter" -> IteratorStream(cs))
    /\ stPre = st
    /\ items = <<>>
    /\ ures = NoResult
    /\ spc = "ready"
    /\ ErrIdle
    /\ CombIdle
    /\ ParserIdle
    /\ AssocIdle
    /\ FmtIdle

Uncons ==
    /\ spc = "ready"
    /\ stPre' = st
    /\ ures' = State_uncons(st)
    /\ IF ures'.tag = "Ok"
       THEN /\ st' = ures'.inner.inner
            /\ items' = Append(items, ures'.value)
            /\ spc' = "ready"
       ELSE /\ st' = st
            /\ items' = items
            /\ spc' = "failed"
    /\ UNCHANGED <<input0, errVars, combVars, parserVars, assocVars, fmtVars>>

NextStream == Uncons

SpecStream == InitStream /\ [][NextStream]_vars

-----------------------------------------------------------------------------
(* SpecParser: the default parse_state on a state of a text stream, for     *)
(* each result parse_lazy can give and each parser                          *)

\* the errors parse_lazy fails with
LazyErrors(position) ==
    {ParseError_empty(position),
     ParseError_end_of_input(position),
     ParseError_new(position, Unexpected(Token(97))),
     from_errors(position, <<Expected(Borrowed("digit")), Unexpected(Token(10))>>)}

LazyResults(input) ==
    {Ok(7, Empty(input)), Ok(7, Consumed(State(SourcePosition(3, 1), StrStream(<<>>))))}
    \cup {Err(Empty(e)) : e \in LazyErrors(input.position)}
    \cup {Err(Consumed(e)) : e \in LazyErrors(SourcePosition(3, 1))}

InitParser ==
    /\ pchars \in SeqsUpTo(SampleChars, MaxIn)
    /\ pinput = State(SourcePosition(2, 1), StrStream(str_from_chars(pchars)))
    /\ pself \in {"default", "digit"}
    /\ plazy \in LazyResults(pinput)
    /\ pres = NoResult
    /\ pcalls = 0
    /\ ppc = "init"
    /\ ErrIdle
    /\ CombIdle
    /\ StreamIdle
    /\ AssocIdle
    /\ FmtIdle

ParseState ==
    /\ ppc = "init"
    /\ pres' = parse_state(pself, pinput, plazy).result
    /\ pcalls' = parse_state(pself, pinput, plazy).add_error_calls
    /\ ppc' = "done"
    /\ UNCHANGED <<pchars, pinput, pself, plazy, errVars, combVars, streamVars, assocVars, fmtVars>>

NextParser == ParseState

SpecParser == InitParser /\ [][NextParser]_vars

-----------------------------------------------------------------------------
(* SpecErr: ParseErrors built from new / empty / end_of_input by add_error, *)
(* add_message, set_expected and merge.  perr and other are both built     *)
(* this way; Exchange swaps them so that either can be grown.              *)

InitErr ==
    /\ perr \in {ParseError_empty(p) : p \in SamplePositions}
    /\ other \in {ParseError_end_of_input(p) : p \in SamplePositions}
    /\ pre = NoError
    /\ op = "init"
    /\ arg = <<>>
    /\ hist = <<>>
    /\ CombIdle
    /\ StreamIdle
    /\ ParserIdle
    /\ AssocIdle
    /\ FmtIdle

ErrNew ==
    \E p \in SamplePositions, e \in SampleErrors :
        /\ perr' = ParseError_new(p, e)
        /\ op' = "new"
        /\ UNCHANGED <<other, pre, arg, hist>>
        /\ UNCHANGED <<combVars, streamVars, parserVars, assocVars, fmtVars>>

ErrEmpty ==
    \E p \in SamplePositions :
        /\ perr' = ParseError_empty(p)
        /\ op' = "empty"
        /\ UNCHANGED <<other, pre, arg, hist>>
        /\ UNCHANGED <<combVars, streamVars, parserVars, assocVars, fmtVars>>

ErrEndOfInput ==
    \E p \in SamplePositions :
        /\ perr' = ParseError_end_of_input(p)
        /\ op' = "end_of_input"
        /\ UNCHANGED <<other, pre, arg, hist>>
        /\ UNCHANGED <<combVars, streamVars, parserVars, assocVars, fmtVars>>

ErrAddError ==
    \E e \in SampleErrors :
        /\ Len(perr.errors) < MaxErrors
        /\ perr' = add_error(perr, e)
        /\ op' = "add_error"
        /\ UNCHANGED <<other, pre, arg, hist>>
        /\ UNCHANGED <<combVars, streamVars, parserVars, assocVars, fmtVars>>

ErrAddMessage ==
    \E i \in SampleMessages :
        /\ Len(perr.errors) < MaxErrors
        /\ perr' = add_message(perr, i)
        /\ op' = "add_message"
        /\ UNCHANGED <<other, pre, arg, hist>>
        /\ UNCHANGED <<combVars, streamVars, parserVars, assocVars, fmtVars>>

ErrSetExpected ==
    \E i \in SampleInfos :
        /\ Len(SelectSeq(perr.errors, IsNotExpected)) < MaxErrors
        /\ perr' = set_expected(perr, i)
        /\ op' = "set_expected"
        /\ UNCHANGED <<other, pre, arg, hist>>
        /\ UNCHANGED <<combVars, streamVars, parserVars, assocVars, fmtVars>>

ErrMerge ==
    /\ Len(merge(perr, other).errors) <= MaxErrors
    /\ perr' = merge(perr, other)
    /\ op' = "merge"
    /\ UNCHANGED <<other, pre, arg, hist>>
    /\ UNCHANGED <<combVars, streamVars, parserVars, assocVars, fmtVars>>

ErrExchange ==
    /\ perr' = other
    /\ other' = perr
    /\ op' = "exchange"
    /\ UNCHANGED <<pre, arg, hist>>
    /\ UNCHANGED <<combVars, streamVars, parserVars, assocVars, fmtVars>>

NextErr ==
    \/ ErrNew
    \/ ErrEmpty
    \/ ErrEndOfInput
    \/ ErrAddError
    \/ ErrAddMessage
    \/ ErrSetExpected
    \/ ErrMerge
    \/ ErrExchange

SpecErr == InitErr /\ [][NextErr]_vars

-----------------------------------------------------------------------------
(* SpecAdd: ParseError::empty(pos) followed by add_error calls only *)

InitAdd ==
    /\ perr \in {ParseError_empty(p) : p \in SamplePositions}
    /\ other = NoError
    /\ pre = perr
    /\ op = "empty"
    /\ arg = <<>>
    /\ hist = <<>>
    /\ CombIdle
    /\ StreamIdle
    /\ ParserIdle
    /\ AssocIdle
    /\ FmtIdle

AddAddError ==
    \E e \in SampleErrors :
        /\ Len(hist) < MaxCalls
        /\ pre' = perr
        /\ perr' = add_error(perr, e)
        /\ op' = "add_error"
        /\ arg' = e
        /\ hist' = Append(hist, e)
        /\ UNCHANGED other
        /\ UNCHANGED <<combVars, streamVars, parserVars, assocVars, fmtVars>>

NextAdd == AddAddError

SpecAdd == InitAdd /\ [][NextAdd]_vars

-----------------------------------------------------------------------------
(* SpecMerge: merge applied to two arbitrary ParseErrors *)

InitMerge ==
    /\ perr \in AnyParseError(MergeErrors, MaxVec)
    /\ other \in AnyParseError(MergeErrors, MaxVec)
    /\ pre = perr
    /\ op = "init"
    /\ arg = <<>>
    /\ hist = <<>>
    /\ CombIdle
    /\ StreamIdle
    /\ ParserIdle
    /\ AssocIdle
    /\ FmtIdle

MergeCall ==
    /\ op = "init"
    /\ pre' = perr
    /\ perr' = merge(perr, other)
    /\ op' = "merge"
    /\ UNCHANGED <<other, arg, hist>>
    /\ UNCHANGED <<combVars, streamVars, parserVars, assocVars, fmtVars>>

NextMerge == MergeCall

SpecMerge == InitMerge /\ [][NextMerge]_vars

-----------------------------------------------------------------------------
(* SpecSetExpected: set_expected applied to an arbitrary ParseError, once *)
(* and then a second time with the same info                              *)

InitSetExpected ==
    /\ perr \in AnyParseError(SampleErrors, MaxRetain)
    /\ other = NoError
    /\ pre = perr
    /\ op = "init"
    /\ arg \in SampleInfos
    /\ hist = <<>>
    /\ CombIdle
    /\ StreamIdle
    /\ ParserIdle
    /\ AssocIdle
    /\ FmtIdle

SetExpectedCall ==
    /\ op = "init"
    /\ pre' = perr
    /\ perr' = set_expected(perr, arg)
    /\ op' = "set_expected"
    /\ UNCHANGED <<other, arg, hist>>
    /\ UNCHANGED <<combVars, streamVars, parserVars, assocVars, fmtVars>>

SetExpectedAgain ==
    /\ op = "set_expected"
    /\ pre' = perr
    /\ perr' = set_expected(perr, arg)
    /\ op' = "set_expected_again"
    /\ UNCHANGED <<other, arg, hist>>
    /\ UNCHANGED <<combVars, streamVars, parserVars, assocVars, fmtVars>>

NextSetExpected ==
    \/ SetExpectedCall
    \/ SetExpectedAgain

SpecSetExpected == InitSetExpected /\ [][NextSetExpected]_vars

-----------------------------------------------------------------------------
(* SpecDisplay: Display applied to an arbitrary ParseError *)

\* the errors of the rendered vectors
DisplayErrors ==
    {Unexpected(Token(120)), Expected(Borrowed("digit")), Expected(Owned("letter")),
     Message(Borrowed("bad")), Other("io error")}

DisplayPositions == {SourcePosition(2, 5), SourcePosition(1, 12)}

InitDisplay ==
    /\ perr \in {from_errors(p, es) : p \in DisplayPositions,
                                      es \in SeqsUpTo(DisplayErrors, MaxShown)}
    /\ other = NoError
    /\ pre = perr
    /\ op = "init"
    /\ arg = <<>>
    /\ hist = <<>>
    /\ rendered = ""
    /\ CombIdle
    /\ StreamIdle
    /\ ParserIdle
    /\ AssocIdle

DisplayCall ==
    /\ op = "init"
    /\ rendered' = ParseError_fmt(perr)
    /\ op' = "display"
    /\ UNCHANGED <<perr, other, pre, arg, hist>>
    /\ UNCHANGED <<combVars, streamVars, parserVars, assocVars>>

NextDisplay == DisplayCall

SpecDisplay == InitDisplay /\ [][NextDisplay]_vars

-----------------------------------------------------------------------------
(* SpecAssoc: three arbitrary ParseErrors without Other entries, merged as  *)
(* merge(merge(a, b), c) and as merge(a, merge(b, c))                       *)

AssocErrors == {Expected(Owned("x")), Expected(Borrowed("x")), Error_end_of_input}

InitAssoc ==
    /\ perr \in AnyParseError(AssocErrors, MaxAssoc)
    /\ other \in AnyParseError(AssocErrors, MaxAssoc)
    /\ third \in AnyParseError(AssocErrors, MaxAssoc)
    /\ assocLeft = NoError
    /\ assocRight = NoError
    /\ pre = perr
    /\ op = "init"
    /\ arg = <<>>
    /\ hist = <<>>
    /\ CombIdle
    /\ StreamIdle
    /\ ParserIdle
    /\ FmtIdle

AssocCall ==
    /\ op = "init"
    /\ assocLeft' = merge(merge(perr, other), third)
    /\ assocRight' = merge(perr, merge(other, third))
    /\ op' = "assoc"
    /\ UNCHANGED <<perr, other, third, pre, arg, hist>>
    /\ UNCHANGED <<combVars, streamVars, parserVars, fmtVars>>

NextAssoc == AssocCall

SpecAssoc == InitAssoc /\ [][NextAssoc]_vars

-----------------------------------------------------------------------------
(* Claims *)

\* the entries b[1..n] that equal no entry of a and no earlier entry of b
RECURSIVE NewEntries(_, _, _)
NewEntries(a, b, n) ==
    IF n = 0 THEN <<>>
    ELSE IF \/ \E i \in 1..Len(a) : Error_eq(a[i], b[n])
            \/ \E j \in 1..(n - 1) : Error_eq(b[j], b[n])
         THEN NewEntries(a, b, n - 1)
         ELSE Append(NewEntries(a, b, n - 1), b[n])

\* C1: merge(a, b) has position max(a.position, b.position); if the positions
\* differ its errors are those of the argument with the larger position; if
\* they are equal its errors are a's, in order, followed by the entries of b,
\* in order, that equal no entry already present.
C1_MergeMonotone ==
    op = "merge" =>
        /\ perr.position \in {pre.position, other.position}
        /\ SourcePosition_cmp(perr.position, pre.position) # "Less"
        /\ SourcePosition_cmp(perr.position, other.position) # "Less"
        /\ (pre.position # other.position /\ perr.position = pre.position)
                => perr.errors = pre.errors
        /\ (pre.position # other.position /\ perr.position = other.position)
                => perr.errors = other.errors
        /\ pre.position = other.position
                => perr.errors =
                       pre.errors \o NewEntries(pre.errors, other.errors, Len(other.errors))

\* scenario S5: a tie where b repeats a's entry and brings a new one
C1_Witness ==
    /\ op = "merge"
    /\ pre.position = other.position
    /\ pre.errors = <<Expected(Owned("x"))>>
    /\ other.errors = <<Error_end_of_input, Expected(Borrowed("x"))>>
    /\ perr.errors = <<Expected(Owned("x")), Error_end_of_input>>

IsExpected(e) == e.kind = "Expected"

\* C5: after set_expected(i) there is exactly one Expected entry, Expected(i);
\* the Unexpected, Message and Other entries are all still there, unchanged
\* and in their order; the position is unchanged; a second set_expected(i)
\* yields the errors of the first.
C5_SetExpected ==
    op \in {"set_expected", "set_expected_again"} =>
        /\ SelectSeq(perr.errors, IsExpected) = <<Expected(arg)>>
        /\ SelectSeq(perr.errors, IsNotExpected) = SelectSeq(pre.errors, IsNotExpected)
        /\ perr.position = pre.position
        /\ op = "set_expected_again" => perr.errors = pre.errors

\* two Expected entries around a Message are replaced by the new one
C5_Witness ==
    /\ op = "set_expected"
    /\ arg = Borrowed("x")
    /\ pre.errors = <<Expected(Borrowed("y")), Error_end_of_input, Expected(Owned("x"))>>
    /\ perr.errors = <<Error_end_of_input, Expected(Borrowed("x"))>>

NoDuplicates(errors) ==
    \A i, j \in 1..Len(errors) : i # j => ~Error_eq(errors[i], errors[j])

\* C3: every ParseError built from new, empty and end_of_input by add_error,
\* add_message, set_expected and merge (of errors built the same way) holds
\* no two entries that are equal under Error equality.
C3_NoDuplicateErrors == NoDuplicates(perr.errors) /\ NoDuplicates(other.errors)

\* a merge at equal positions has met Expected(Borrowed "x") while holding
\* the equal Expected(Owned "x"), and has kept one of them
C3_Witness ==
    /\ op = "merge"
    /\ perr.position = other.position
    /\ other.errors = <<Expected(Borrowed("x")), Error_end_of_input>>
    /\ perr.errors = <<Expected(Owned("x")), Error_end_of_input>>

\* the entries of hist that no earlier entry of hist equals, in call order
RECURSIVE FirstOccurrences(_, _)
FirstOccurrences(calls, n) ==
    IF n = 0 THEN <<>>
    ELSE IF \E j \in 1..(n - 1) : Error_eq(calls[j], calls[n])
         THEN FirstOccurrences(calls, n - 1)
         ELSE Append(FirstOccurrences(calls, n - 1), calls[n])

\* C4: from ParseError::empty(pos), after add_error(e_1) .. add_error(e_n) the
\* errors are the distinct values among e_1..e_n, each once, in the order of
\* first occurrence; a call whose argument equals an existing entry changes
\* neither errors nor position.
C4_AddErrorDedup ==
    /\ perr.errors = FirstOccurrences(hist, Len(hist))
    /\ perr.position = pre.position
    /\ (op = "add_error" /\ \E i \in 1..Len(pre.errors) : Error_eq(pre.errors[i], arg))
            => perr = pre

\* three calls, the third repeating the first under Owned/Borrowed equality
C4_Witness ==
    /\ hist = <<Expected(Owned("x")), Error_end_of_input, Expected(Borrowed("x"))>>
    /\ perr.errors = <<Expected(Owned("x")), Error_end_of_input>>

\* C2: Empty(x).combine(f) is f(x) unchanged; Consumed(x).combine(f) is f(x)
\* with the inner flag forced to Consumed: it never yields an Empty flag and
\* keeps the Ok/Err arm, the output value, the state and the error.
C2_Combine ==
    cpc = "done" =>
        LET y == cf[cself.inner] IN
        /\ cself.flag = "Empty" => cout = y
        /\ cself.flag = "Consumed" =>
              /\ cout.tag = y.tag
              /\ cout.inner.flag = "Consumed"
              /\ cout.inner.inner = y.inner.inner
              /\ y.tag = "Ok" => cout.value = y.value
              /\ y.inner.flag = "Consumed" => cout = y

\* after a consumed prefix the closure failed empty, and the failure is
\* reported as consumed
C2_Witness ==
    /\ cpc = "done"
    /\ cself.flag = "Consumed"
    /\ cf[cself.inner] = Err(Empty(ParseError_end_of_input(BytePosition(2))))
    /\ cout = Err(Consumed(ParseError_end_of_input(BytePosition(2))))

\* C6: State::uncons on a non-empty input returns Ok((first item,
\* Consumed(new state))), never Empty; on an exhausted input it returns
\* Err(Empty(error)), never Consumed, the error holding the position the
\* state had before the call and exactly [Message("End of input")].
C6_UnconsFlags ==
    ures # NoResult =>
        /\ Len(stPre.input.data) > 0 =>
              /\ ures.tag = "Ok"
              /\ ures.inner.flag = "Consumed"
              /\ ures.value = input0[Len(items)]
              /\ ures.inner.inner = st
        /\ Len(stPre.input.data) = 0 =>
              /\ ures.tag = "Err"
              /\ ures.inner.flag = "Empty"
              /\ ures.inner.inner.position = stPre.position
              /\ ures.inner.inner.errors =
                     <<[kind |-> "Message",
                        info |-> [tag |-> "Borrowed", val |-> "End of input"]]>>

\* scenario S1: the fourth uncons of a three-character text fails at the
\* position the third one left
C6_Witness ==
    /\ spc = "failed"
    /\ st.input.kind = "str"
    /\ items = <<97, 233, 8364>>
    /\ ures.tag = "Err"
    /\ ures.inner.inner.position = SourcePosition(1, 4)

RECURSIVE CountNewlines(_)
CountNewlines(s) ==
    IF s = <<>> THEN 0
    ELSE (IF Head(s) = 10 THEN 1 ELSE 0) + CountNewlines(Tail(s))

\* number of items of s after its last newline, all of them if it has none
RECURSIVE AfterLastNewline(_)
AfterLastNewline(s) ==
    IF s = <<>> THEN 0
    ELSE IF s[Len(s)] = 10 THEN 0
    ELSE 1 + AfterLastNewline(SubSeq(s, 1, Len(s) - 1))

\* C7: after the successful uncons calls that consumed the prefix s, the
\* position of a text stream is line 1 + number of newlines of s, column 1 +
\* number of characters of s after its last newline; the offset of a byte
\* stream is the number of bytes consumed.
C7_Position ==
    spc \in {"ready", "failed"} =>
        /\ st.input.kind \in {"str", "iter"} =>
              st.position = [line |-> 1 + CountNewlines(items),
                             column |-> 1 + AfterLastNewline(items)]
        /\ st.input.kind = "slice" => st.position = [position |-> Len(items)]

\* scenario S2 with a two-byte character: 'a', newline, e-acute
C7_Witness ==
    /\ st.input.kind = "str"
    /\ items = <<97, 10, 233>>
    /\ st.position = SourcePosition(2, 2)

\* C8: for the text, slice and iterator streams, uncons called from
\* State::new(input) on each returned state until it fails yields the items
\* of the input in order, one per call, and the first failure comes after as
\* many successful calls as the input has items.
C8_RoundTrip ==
    spc \in {"ready", "failed"} =>
        /\ Len(items) <= Len(input0)
        /\ items = SubSeq(input0, 1, Len(items))
        /\ spc = "failed" => items = input0

\* a text of characters of 4, 1 and 3 bytes, read back to its end
C8_Witness ==
    /\ spc = "failed"
    /\ st.input.kind = "str"
    /\ input0 = <<128512, 10, 8364>>
    /\ items = input0

LazyFailedEmpty == plazy.tag = "Err" /\ plazy.inner.flag = "Empty"

\* es with Unexpected(Token(t)) appended unless it is already an entry
WithUnexpectedToken(es, t) ==
    IF \E i \in 1..Len(es) :
          es[i].kind = "Unexpected" /\ es[i].info.tag = "Token" /\ es[i].info.val = t
    THEN es
    ELSE Append(es, [kind |-> "Unexpected", info |-> [tag |-> "Token", val |-> t]])

\* C9: when parse_lazy returns Err(Empty(error)) and the given state has an
\* item, parse_state returns Err(Empty(error')), error' having error's
\* position and error's errors with Unexpected(Token(first item)) inserted by
\* add_error and then the parser's add_error applied; when parse_lazy returns
\* Ok or Err(Consumed), parse_state returns that result unchanged and does not
\* call the parser's add_error.
C9_ParseStateAugments ==
    ppc = "done" =>
        /\ (LazyFailedEmpty /\ Len(pchars) > 0) =>
              /\ pres.tag = "Err"
              /\ pres.inner.flag = "Empty"
              /\ pres.inner.inner.position = plazy.inner.inner.position
              /\ pres.inner.inner.errors =
                    Parser_add_error(pself,
                        [position |-> plazy.inner.inner.position,
                         errors |-> WithUnexpectedToken(plazy.inner.inner.errors,
                                                        pchars[1])]).errors
              /\ pcalls = 1
        /\ ~LazyFailedEmpty =>
              /\ pres = plazy
              /\ pcalls = 0

\* an empty failure on a text starting with e-acute gains the unexpected
\* token and the parser's Expected entry
C9_Witness ==
    /\ ppc = "done"
    /\ pself = "digit"
    /\ pchars = <<233, 97>>
    /\ plazy = Err(Empty(ParseError_end_of_input(SourcePosition(2, 1))))
    /\ pres.inner.inner.errors =
          <<Error_end_of_input, Unexpected(Token(233)), Expected(Borrowed("digit"))>>

\* C10 as stated: parse_state augments the error only if parse_lazy returned
\* Err(Empty) and the state still has an item; on an empty failure with the
\* input exhausted the parser's add_error is not called and the error is
\* returned as parse_lazy produced it.
C10_AsStated ==
    ppc = "done" =>
        /\ (pcalls > 0 \/ pres # plazy) => (LazyFailedEmpty /\ Len(pchars) > 0)
        /\ (LazyFailedEmpty /\ Len(pchars) = 0) => (pcalls = 0 /\ pres = plazy)

HasUnexpectedToken(error) ==
    \E i \in 1..Len(error.errors) :
        error.errors[i].kind = "Unexpected" /\ error.errors[i].info.tag = "Token"

\* C10 amended: parse_state inserts the Unexpected token only if parse_lazy
\* returned Err(Empty) and the state still has an item, and calls the
\* parser's add_error exactly when parse_lazy returned Err(Empty), the input
\* exhausted or not; on an empty failure with the input exhausted the result
\* is parse_lazy's error with the parser's add_error applied and no token
\* inserted.
C10_AddErrorOnEveryEmptyFailure ==
    ppc = "done" =>
        /\ pcalls = (IF LazyFailedEmpty THEN 1 ELSE 0)
        /\ ~LazyFailedEmpty => pres = plazy
        /\ (LazyFailedEmpty /\ Len(pchars) = 0) =>
              /\ pres = Err(Empty(Parser_add_error(pself, plazy.inner.inner)))
              /\ HasUnexpectedToken(pres.inner.inner)
                    => HasUnexpectedToken(plazy.inner.inner)
        /\ (pres.tag = "Err" /\ plazy.tag = "Err"
                /\ HasUnexpectedToken(pres.inner.inner)
                /\ ~HasUnexpectedToken(plazy.inner.inner))
              => (LazyFailedEmpty /\ Len(pchars) > 0)

\* an empty failure at the end of the input gains the parser's Expected
\* entry and no token
C10_Witness ==
    /\ ppc = "done"
    /\ pself = "digit"
    /\ pchars = <<>>
    /\ plazy = Err(Empty(ParseError_end_of_input(SourcePosition(2, 1))))
    /\ pcalls = 1
    /\ pres = Err(Empty(from_errors(SourcePosition(2, 1),
                      <<Error_end_of_input, Expected(Borrowed("digit"))>>)))

\* the lines of ls, each ended by a newline
RECURSIVE JoinLines(_)
JoinLines(ls) ==
    IF ls = <<>> THEN "" ELSE Head(ls) \o "\n" \o JoinLines(Tail(ls))

\* "'n1', 'n2', .. 'nk'" for the first k of the quoted names
RECURSIVE CommaList(_, _)
CommaList(names, k) ==
    IF k = 1 THEN "'" \o names[1] \o "'"
    ELSE CommaList(names, k - 1) \o ", '" \o names[k] \o "'"

\* the single Expected line for one or more names
ExpectedLine(names) ==
    IF Len(names) = 1 THEN "Expected '" \o names[1] \o "'"
    ELSE "Expected " \o CommaList(names, Len(names) - 1)
             \o " or '" \o names[Len(names)] \o "'"

\* the texts of the entries of errors whose kind is in kinds, in vector order
RECURSIVE TextsOf(_, _)
TextsOf(errors, kinds) ==
    IF errors = <<>> THEN <<>>
    ELSE (IF Head(errors).kind \in kinds
          THEN <<IF Head(errors).kind = "Other" THEN Head(errors).info.val
                 ELSE Info_fmt(Head(errors).info)>>
          ELSE <<>>)
         \o TextsOf(Tail(errors), kinds)

\* C11: Display writes the line "Parse error at <position>", then a line
\* "Unexpected token '<tok>'" per Unexpected entry in insertion order, then,
\* only if there is an Expected entry, one line listing the Expected entries
\* in insertion order, quoted, after "Expected", separated by "," with " or"
\* before the last when there are two or more, then a line per Message or
\* Other entry in insertion order.
C11_DisplayLayout ==
    op = "display" =>
        LET unexpected == TextsOf(perr.errors, {"Unexpected"})
            expected == TextsOf(perr.errors, {"Expected"})
            messages == TextsOf(perr.errors, {"Message", "Other"})
        IN rendered =
              JoinLines(
                  <<"Parse error at " \o SourcePosition_fmt(perr.position)>>
                  \o [k \in 1..Len(unexpected) |->
                          "Unexpected token '" \o unexpected[k] \o "'"]
                  \o (IF expected = <<>> THEN <<>> ELSE <<ExpectedLine(expected)>>)
                  \o messages)

\* three Expected entries around an Unexpected one: the token line comes
\* first, the list has one comma and one "or"
C11_Witness ==
    /\ op = "display"
    /\ perr.errors = <<Expected(Borrowed("digit")), Unexpected(Token(120)),
                       Expected(Owned("letter")), Expected(Borrowed("digit"))>>
    /\ rendered = "Parse error at line: 2, column: 5\nUnexpected token 'x'\nExpected 'digit', 'letter' or 'digit'\n"

\* p is one of the three positions and none of them is beyond it
IsMaxOfThree(p) ==
    /\ p \in {perr.position, other.position, third.position}
    /\ \A e \in {perr, other, third} : SourcePosition_cmp(p, e.position) # "Less"

\* C12: on errors without Other entries merge is associative:
\* merge(merge(a, b), c) and merge(a, merge(b, c)) have the same position, the
\* maximum of the three, and the same errors in the same order, and every
\* entry of the result comes from an argument at that maximum position.
C12_MergeAssociative ==
    op = "assoc" =>
        /\ assocLeft.position = assocRight.position
        /\ IsMaxOfThree(assocLeft.position)
        /\ assocLeft.errors = assocRight.errors
        /\ \A k \in 1..Len(assocLeft.errors) :
              \E e \in {perr, other, third} :
                  /\ e.position = assocLeft.position
                  /\ \E j \in 1..Len(e.errors) : e.errors[j] = assocLeft.errors[k]

\* a is behind, b and c tie ahead of it: b's entries, then c's new one
C12_Witness ==
    /\ op = "assoc"
    /\ perr = from_errors(SourcePosition(1, 2), <<Error_end_of_input>>)
    /\ other = from_errors(SourcePosition(2, 1), <<Expected(Owned("x")), Expected(Owned("x"))>>)
    /\ third = from_errors(SourcePosition(2, 1), <<Expected(Borrowed("x")), Error_end_of_input>>)
    /\ assocLeft = from_errors(SourcePosition(2, 1),
                       <<Expected(Owned("x")), Expected(Owned("x")), Error_end_of_input>>)
    /\ assocRight = assocLeft

====
